---- MODULE Spec2Model ----
(***************************************************************************)
(* A model of texar/data/data/data_utils.py: the _DataSpec container, the  *)
(* transformation-composition helpers, the random shard transformation     *)
(* and the line counter.  Each component of the file has its own group of  *)
(* variables and its own specification (SpecShard, SpecData, ...); a       *)
(* specification holds the variables of the other components at their     *)
(* idle values.                                                            *)
(***************************************************************************)
EXTENDS Integers, Sequences, FiniteSets, TLC

VARIABLES
    \* random_shard_dataset / _shard_fn
    dataset_size,   \* argument dataset_size
    shard_size,     \* argument shard_size
    boundaries,     \* the np.linspace offsets (a sequence of integers)
    spc,            \* "args" | "made" | "iter" | "done"
    buffer,         \* shuffle buffer: indices of boundaries not yet emitted
    order,          \* offsets in the order the shuffle emitted them
    inner,          \* the flat_map's current skip(lb).take(shard_size) iterator
    output          \* records the flattened dataset has produced so far

shardVars == <<dataset_size, shard_size, boundaries, spc, buffer, order, inner, output>>

VARIABLES
    \* _DataSpec
    self,           \* the container: its __dict__, keys in insertion order
    last            \* the last method call: arguments, state before, outcome

dataVars == <<self, last>>

VARIABLES
    \* make_chained_transformation / _chained_fn
    chained,        \* the _chained_fn closure: tran_fns and the extra argument
    clast           \* the last call of the closure: input, calls made, result

chainVars == <<chained, clast>>

VARIABLES
    \* make_combined_transformation / _combined_fn
    combined,       \* the outcome of make_combined_transformation
    blast           \* the last call of _combined_fn: input and outcome

combVars == <<combined, blast>>

VARIABLES
    \* maybe_tuple
    mt              \* the last call of maybe_tuple: argument and outcome

tupleVars == <<mt>>

VARIABLES
    \* count_file_lines
    files,          \* the file system: the content of each path that exists
    lc              \* the last call of count_file_lines: argument and outcome

lineVars == <<files, lc>>

vars == <<shardVars, dataVars, chainVars, combVars, tupleVars, lineVars>>

\* What the actions of one component leave alone: the other components.
notShard == <<dataVars, chainVars, combVars, tupleVars, lineVars>>
notData == <<shardVars, chainVars, combVars, tupleVars, lineVars>>
notChain == <<shardVars, dataVars, combVars, tupleVars, lineVars>>
notComb == <<shardVars, dataVars, chainVars, tupleVars, lineVars>>
notTuple == <<shardVars, dataVars, chainVars, combVars, lineVars>>
notLine == <<shardVars, dataVars, chainVars, combVars, tupleVars>>

Min(a, b) == IF a < b THEN a ELSE b

----------------------------------------------------------------------------
(* Bounds of the model.                                                    *)
MaxDatasetSize == 5
MaxShardSize == 4
MaxLen == 2         \* longest list or tuple given as a field value
MaxNum == 2         \* largest num given to set_ith_data_spec
MaxIdx == 2         \* largest index i given to the container's methods
MaxFns == 3         \* longest tran_fns given to make_chained_transformation
MaxItems == 4       \* longest sequence given to maybe_tuple
MaxFileLen == 3     \* longest file content, in characters
MaxFiles == 2       \* longest list of paths given to count_file_lines
MaxComp == 2        \* most components given to make_combined_transformation
MaxChain == 2       \* longest list of functions given for one component

----------------------------------------------------------------------------
(* Python values held by _DataSpec fields                                  *)

\* A value is an opaque object (None among them), a list or a tuple.
Obj(id) == [tag |-> "obj", id |-> id, items |-> <<>>]
None == Obj("None")
List(items) == [tag |-> "list", id |-> "", items |-> items]
Tuple(items) == [tag |-> "tuple", id |-> "", items |-> items]

\* A mutant of IsSequence: only lists count as sequences.
IsListOnly(v) == v.tag = "list"

\* isinstance(v, (tuple, list))
IsSequence(v) == v.tag \in {"tuple", "list"}

\* Python's items[i]: a negative index counts from the end; an index outside
\* -len .. len-1 raises IndexError.
IndexOk(items, i) == -Len(items) <= i /\ i < Len(items)
IndexPos(items, i) == IF i >= 0 THEN i + 1 ELSE Len(items) + i + 1

\* [None] * num
NoneList(num) == [j \in 1..num |-> None]

----------------------------------------------------------------------------
(* _DataSpec: an object whose __dict__ maps field names to values; keys    *)
(* lists the names in insertion order, the order six.iteritems visits.     *)

Reserved == <<"dataset", "dataset_size", "decoder", "vocab", "embedding">>
ReservedSet == {Reserved[j] : j \in DOMAIN Reserved}

EmptyDict == [keys |-> <<>>, val |-> [k \in {} |-> None]]

\* d[k] = v of a dict: an existing key keeps its place, a new key goes last.
DictSet(d, k, v) ==
    [keys |-> IF k \in DOMAIN d.val THEN d.keys ELSE Append(d.keys, k),
     val |-> [f \in DOMAIN d.val \cup {k} |-> IF f = k THEN v ELSE d.val[f]]]

\* d.update(kw)
RECURSIVE DictUpdate(_, _, _)
DictUpdate(d, kw, ks) ==
    IF ks = <<>> THEN d
    ELSE DictUpdate(DictSet(d, Head(ks), kw.val[Head(ks)]), kw, Tail(ks))

\* _DataSpec(dataset, dataset_size, decoder, vocab, embedding, **kwargs):
\* the extra keyword arguments first, then the five reserved fields; args
\* gives the reserved arguments that were passed, the others default to None.
NewDataSpec(args, kwargs) ==
    DictUpdate(kwargs,
               [keys |-> Reserved,
                val |-> [f \in ReservedSet |->
                            IF f \in DOMAIN args THEN args[f] ELSE None]],
               Reserved)

\* add_spec(**kwargs)
add_spec(d, kwargs) == DictUpdate(d, kwargs, kwargs.keys)

\* The loop of get_ith_data_spec over the fields ks still to visit: kwargs
\* collects v[i] for a sequence v and v itself otherwise.
RECURSIVE GetLoop(_, _, _, _)
GetLoop(d, ks, i, kwargs) ==
    IF ks = <<>> THEN [err |-> "ok", ret |-> kwargs]
    ELSE LET k == Head(ks)
             v == d.val[k]
         IN  IF IsSequence(v)
             THEN IF IndexOk(v.items, i)
                  THEN GetLoop(d, Tail(ks), i,
                               DictSet(kwargs, k, v.items[IndexPos(v.items, i)]))
                  ELSE [err |-> "IndexError", ret |-> EmptyDict]
             ELSE GetLoop(d, Tail(ks), i, DictSet(kwargs, k, v))

\* The keyword arguments of kw that are no named parameter of __init__.
RECURSIVE Extras(_, _)
Extras(kw, ks) ==
    IF ks = <<>> THEN EmptyDict
    ELSE LET rest == Extras(kw, SubSeq(ks, 1, Len(ks) - 1))
             k == ks[Len(ks)]
         IN  IF k \in ReservedSet THEN rest ELSE DictSet(rest, k, kw.val[k])

\* get_ith_data_spec(i): [err, ret]; ret is the new _DataSpec(**kwargs).
get_ith_data_spec(d, i) ==
    LET r == GetLoop(d, d.keys, i, EmptyDict)
    IN  IF r.err = "ok"
        THEN [err |-> "ok",
              ret |-> NewDataSpec([f \in DOMAIN r.ret.val \cap ReservedSet |-> r.ret.val[f]],
                                  Extras(r.ret, r.ret.keys))]
        ELSE r

\* The loop of set_ith_data_spec over the fields ks of data_spec still to
\* visit.  v_[i] = v raises TypeError on a tuple and IndexError on a list that
\* i is no index of; an exception leaves the loop with the fields visited
\* before it already written.
RECURSIVE SetLoop(_, _, _, _, _)
SetLoop(d, ks, i, data_spec, num) ==
    IF ks = <<>> THEN [err |-> "ok", spec |-> d]
    ELSE LET k == Head(ks)
             v == data_spec.val[k]
         IN  IF k \in DOMAIN d.val
             THEN LET v_ == d.val[k]
                  IN  IF IsSequence(v_)
                      THEN IF v_.tag = "tuple"
                           THEN [err |-> "TypeError", spec |-> d]
                           ELSE IF ~IndexOk(v_.items, i)
                           THEN [err |-> "IndexError", spec |-> d]
                           ELSE SetLoop(
                                  DictSet(d, k, List([v_.items EXCEPT
                                                ![IndexPos(v_.items, i)] = v])),
                                  Tail(ks), i, data_spec, num)
                      ELSE SetLoop(DictSet(d, k, v), Tail(ks), i, data_spec, num)
             ELSE LET v_ == NoneList(num)
                  IN  IF ~IndexOk(v_, i)
                      THEN [err |-> "IndexError", spec |-> d]
                      ELSE SetLoop(
                             DictSet(d, k, List([v_ EXCEPT ![IndexPos(v_, i)] = v])),
                             Tail(ks), i, data_spec, num)

\* set_ith_data_spec(i, data_spec, num): [err, spec], spec the container after.
set_ith_data_spec(d, i, data_spec, num) == SetLoop(d, data_spec.keys, i, data_spec, num)

----------------------------------------------------------------------------
(* Inputs of the _DataSpec methods                                         *)

Objects == {None, Obj("d0")}
Elements == {None, Obj("d0")}
ElementSeqs == UNION {[1..n -> Elements] : n \in 0..MaxLen}
Values == Objects \cup {List(s) : s \in ElementSeqs} \cup {Tuple(s) : s \in ElementSeqs}
Indices == (-1)..MaxIdx

Kw(k, v) == [keys |-> <<k>>, val |-> [f \in {k} |-> v]]

\* The per-component specs handed to set_ith_data_spec: built by the
\* constructor alone, with the extra field x as a keyword argument (x is
\* then visited first), or given x by add_spec afterwards (x visited last).
Others ==
    {NewDataSpec([f \in {"decoder"} |-> dv], EmptyDict) : dv \in {None, Obj("d0")}}
    \cup {NewDataSpec([f \in {"decoder"} |-> dv], Kw("x", Obj("d0"))) :
             dv \in {None, Obj("d0")}}
    \cup {add_spec(NewDataSpec([f \in {"decoder"} |-> dv], EmptyDict), Kw("x", Obj("d0"))) :
             dv \in {None, Obj("d0")}}

NoCall == [op |-> "none", i |-> 0, num |-> 0, other |-> EmptyDict,
           pre |-> EmptyDict, err |-> "ok", ret |-> EmptyDict]

InitDataIdle ==
    /\ self = EmptyDict
    /\ last = NoCall

\* The container as constructed: _DataSpec(decoder=..., vocab=...).
InitData ==
    /\ \E dv \in Values, vv \in {None, Obj("v")} :
          self = NewDataSpec([f \in {"decoder", "vocab"} |->
                                 IF f = "decoder" THEN dv ELSE vv], EmptyDict)
    /\ last = NoCall

\* add_spec(k=v)
AddSpec ==
    /\ last = NoCall
    /\ \/ \E k \in {"decoder", "x"}, v \in Values : self' = add_spec(self, Kw(k, v))
       \/ \E v \in Objects : self' = add_spec(self, Kw("y", v))
    /\ last' = NoCall
    /\ UNCHANGED notData

GetIthDataSpec ==
    /\ last = NoCall
    /\ \E i \in Indices :
          LET r == get_ith_data_spec(self, i)
          IN  last' = [op |-> "get", i |-> i, num |-> 0, other |-> EmptyDict,
                       pre |-> self, err |-> r.err, ret |-> r.ret]
    /\ UNCHANGED self
    /\ UNCHANGED notData

SetIthDataSpec ==
    /\ last = NoCall
    /\ \E i \in Indices, data_spec \in Others, num \in 0..MaxNum :
        LET r == set_ith_data_spec(self, i, data_spec, num)
        IN  /\ self' = r.spec
            /\ last' = [op |-> "set", i |-> i, num |-> num, other |-> data_spec,
                        pre |-> self, err |-> r.err, ret |-> EmptyDict]
    /\ UNCHANGED notData

\* The caller takes the call's result (or handles its exception) and goes on.
DataReturn ==
    /\ last # NoCall
    /\ last' = NoCall
    /\ UNCHANGED self
    /\ UNCHANGED notData

NextData ==
    \/ AddSpec
    \/ GetIthDataSpec
    \/ SetIthDataSpec
    \/ DataReturn

----------------------------------------------------------------------------
(* random_shard_dataset                                                    *)

\* texar.core.utils.ceildiv(a, b): the ceiling of a / b.
ceildiv(a, b) == (a + b - 1) \div b

\* np.linspace(0, stop, num=num, endpoint=False, dtype=np.int64): the values
\* i * (stop / num), i = 0 .. num-1, truncated to integers.  The product is
\* computed in double precision; for stop < 122 it truncates to the exact
\* floor(i * stop / num), which is what is computed here.
linspace(stop, num) == [k \in 1..num |-> ((k - 1) * stop) \div num]

\* The source dataset the transformation is applied to: dataset_size records,
\* record r at position r (positions count from 0).
Dataset == [k \in 1..dataset_size |-> k - 1]

NoInner == [active |-> FALSE, pos |-> 0, taken |-> 0]

\* dataset.skip(lb): an iterator positioned lb records in, or at the end of a
\* shorter dataset.
Skip(lb) == [active |-> TRUE, pos |-> Min(lb, Len(Dataset)), taken |-> 0]

\* A mutant of CanTake: take() yields one record too many.
CanTakeOneMore == inner.taken <= shard_size /\ inner.pos < Len(Dataset)

\* .take(shard_size) has a further record to yield.
CanTake == inner.taken < shard_size /\ inner.pos < Len(Dataset)

InitShardIdle ==
    /\ dataset_size = 0
    /\ shard_size = 0
    /\ boundaries = <<>>
    /\ spc = "idle"
    /\ buffer = {}
    /\ order = <<>>
    /\ inner = NoInner
    /\ output = <<>>

InitShard ==
    /\ dataset_size \in 1..MaxDatasetSize
    /\ shard_size \in 1..MaxShardSize
    /\ boundaries = <<>>
    /\ spc = "args"
    /\ buffer = {}
    /\ order = <<>>
    /\ inner = NoInner
    /\ output = <<>>

\* random_shard_dataset(dataset_size, shard_size, seed): computes the
\* boundaries and returns _shard_fn.
RandomShardDataset ==
    /\ spc = "args"
    /\ boundaries' = linspace(dataset_size, ceildiv(dataset_size, shard_size))
    /\ spc' = "made"
    /\ UNCHANGED <<dataset_size, shard_size, buffer, order, inner, output>>
    /\ UNCHANGED notShard

\* _shard_fn(dataset): builds from_tensor_slices(boundaries)
\* .shuffle(num_shards).flat_map(...); the shuffle buffer holds every
\* boundary, since its size is num_shards.
ShardFn ==
    /\ spc = "made"
    /\ buffer' = DOMAIN boundaries
    /\ spc' = "iter"
    /\ UNCHANGED <<dataset_size, shard_size, boundaries, order, inner, output>>
    /\ UNCHANGED notShard

\* The shuffle emits one of the buffered boundaries (which one depends on
\* the seed) and flat_map opens dataset.skip(lb).take(shard_size) on it.
ShuffleNext ==
    /\ spc = "iter"
    /\ ~inner.active
    /\ \E k \in buffer :
        /\ buffer' = buffer \ {k}
        /\ order' = Append(order, boundaries[k])
        /\ inner' = Skip(boundaries[k])
    /\ UNCHANGED <<dataset_size, shard_size, boundaries, spc, output>>
    /\ UNCHANGED notShard

\* The inner iterator yields its next record into the flattened output.
TakeNext ==
    /\ spc = "iter"
    /\ inner.active
    /\ CanTake
    /\ output' = Append(output, Dataset[inner.pos + 1])
    /\ inner' = [inner EXCEPT !.pos = @ + 1, !.taken = @ + 1]
    /\ UNCHANGED <<dataset_size, shard_size, boundaries, spc, buffer, order>>
    /\ UNCHANGED notShard

\* The inner iterator is exhausted; flat_map goes back to the shuffle.
InnerEnd ==
    /\ spc = "iter"
    /\ inner.active
    /\ ~CanTake
    /\ inner' = NoInner
    /\ UNCHANGED <<dataset_size, shard_size, boundaries, spc, buffer, order, output>>
    /\ UNCHANGED notShard

\* The shuffle is exhausted: end of the sharded dataset.
ShardEnd ==
    /\ spc = "iter"
    /\ ~inner.active
    /\ buffer = {}
    /\ spc' = "done"
    /\ UNCHANGED <<dataset_size, shard_size, boundaries, buffer, order, inner, output>>
    /\ UNCHANGED notShard

NextShard ==
    \/ RandomShardDataset
    \/ ShardFn
    \/ ShuffleNext
    \/ TakeNext
    \/ InnerEnd
    \/ ShardEnd

----------------------------------------------------------------------------
(* maybe_tuple                                                             *)

\* maybe_tuple(data): [err, ret].  tuple(data), then data itself when it has
\* more than one element and data[0] otherwise; data[0] of the empty tuple
\* raises IndexError.
maybe_tuple(data) ==
    LET t == Tuple(data)
    IN  IF Len(t.items) > 1
        THEN [err |-> "ok", ret |-> t]
        ELSE IF IndexOk(t.items, 0)
             THEN [err |-> "ok", ret |-> t.items[IndexPos(t.items, 0)]]
             ELSE [err |-> "IndexError", ret |-> None]

TupleElements == {None, Obj("d0"), Tuple(<<>>)}
TupleInputs == UNION {[1..n -> TupleElements] : n \in 0..MaxItems}

NoTupleCall == [op |-> "none", data |-> <<>>, err |-> "ok", ret |-> None]

InitTuple == mt = NoTupleCall

MaybeTuple ==
    /\ mt = NoTupleCall
    /\ \E data \in TupleInputs :
          LET r == maybe_tuple(data)
          IN  mt' = [op |-> "call", data |-> data, err |-> r.err, ret |-> r.ret]
    /\ UNCHANGED notTuple

\* The caller takes the result (or handles the exception).
TupleReturn ==
    /\ mt # NoTupleCall
    /\ mt' = NoTupleCall
    /\ UNCHANGED notTuple

NextTuple ==
    \/ MaybeTuple
    \/ TupleReturn

----------------------------------------------------------------------------
(* make_chained_transformation                                             *)

\* The transformation functions handed in, each called as fn(data, arg):
\* three functions no two of which commute.
TranFns == {"add", "dbl", "sqr"}
Apply(fn, data, arg) ==
    CASE fn = "add" -> data + arg
      [] fn = "dbl" -> 2 * data
      [] fn = "sqr" -> data * data

\* A mutant of ChainLoop: every function is handed the original data, the
\* result of the one before it is dropped.
ChainLoopSameInput(tran_fns, arg, data, calls) ==
    [ret |-> IF tran_fns = <<>> THEN data
             ELSE Apply(tran_fns[Len(tran_fns)], data, arg),
     calls |-> calls \o [k \in DOMAIN tran_fns |->
                           [fn |-> tran_fns[k], data |-> data, arg |-> arg]]]

\* The loop of _chained_fn over the functions still to apply; calls records
\* each call made: the function, the data it received, the extra argument.
RECURSIVE ChainLoop(_, _, _, _)
ChainLoop(tran_fns, arg, data, calls) ==
    IF tran_fns = <<>> THEN [ret |-> data, calls |-> calls]
    ELSE ChainLoop(Tail(tran_fns), arg, Apply(Head(tran_fns), data, arg),
                   Append(calls, [fn |-> Head(tran_fns), data |-> data, arg |-> arg]))

\* _chained_fn(data) of the closure c
chained_fn(c, data) == ChainLoop(c.tran_fns, c.arg, data, <<>>)

TranFnSeqs == UNION {[1..n -> TranFns] : n \in 0..MaxFns}
ChainArgs == 1..2
ChainInputs == 0..2

NoChained == [made |-> FALSE, tran_fns |-> <<>>, arg |-> 0]
NoChainCall == [op |-> "none", data |-> 0, ret |-> 0, calls |-> <<>>]

InitChain ==
    /\ chained = NoChained
    /\ clast = NoChainCall

\* make_chained_transformation(tran_fns, arg): returns the closure.
MakeChainedTransformation ==
    /\ ~chained.made
    /\ \E fns \in TranFnSeqs, arg \in ChainArgs :
          chained' = [made |-> TRUE, tran_fns |-> fns, arg |-> arg]
    /\ UNCHANGED clast
    /\ UNCHANGED notChain

\* _chained_fn(data)
ChainedFn ==
    /\ chained.made
    /\ clast = NoChainCall
    /\ \E data \in ChainInputs :
          LET r == chained_fn(chained, data)
          IN  clast' = [op |-> "call", data |-> data, ret |-> r.ret, calls |-> r.calls]
    /\ UNCHANGED chained
    /\ UNCHANGED notChain

\* The caller takes the result.
ChainReturn ==
    /\ clast # NoChainCall
    /\ clast' = NoChainCall
    /\ UNCHANGED chained
    /\ UNCHANGED notChain

NextChain ==
    \/ MakeChainedTransformation
    \/ ChainedFn
    \/ ChainReturn

----------------------------------------------------------------------------
(* count_file_lines                                                        *)

\* The lines iterating a text file yields: each run of characters up to and
\* including a "\n", and the characters after the last "\n" when there are
\* any.  cur is the line being read.
RECURSIVE SplitLines(_, _)
SplitLines(content, cur) ==
    IF content = <<>>
    THEN IF cur = <<>> THEN <<>> ELSE <<cur>>
    ELSE IF Head(content) = "\n"
         THEN <<Append(cur, "\n")>> \o SplitLines(Tail(content), <<>>)
         ELSE SplitLines(Tail(content), Append(cur, Head(content)))

\* A mutant of ReadLines: characters after the last "\n" are no line.
RECURSIVE ReadTerminatedLines(_)
ReadTerminatedLines(content) ==
    IF content = <<>> \/ content[Len(content)] = "\n"
    THEN SplitLines(content, <<>>)
    ELSE ReadTerminatedLines(SubSeq(content, 1, Len(content) - 1))

ReadLines(content) == SplitLines(content, <<>>)

\* for i, _ in enumerate(f): pass -- i ends as the index of the last line,
\* or as it was when there is none.
RECURSIVE EnumerateLoop(_, _, _)
EnumerateLoop(lines, index, i) ==
    IF lines = <<>> THEN i
    ELSE EnumerateLoop(Tail(lines), index + 1, index)

\* _count_lines(fn) on a file of this content: i = -1, the loop, return i + 1.
count_lines(content) == EnumerateLoop(ReadLines(content), 0, -1) + 1

\* np.sum of a list of numbers
RECURSIVE np_sum(_)
np_sum(xs) == IF xs = <<>> THEN 0 ELSE Head(xs) + np_sum(Tail(xs))

\* count_file_lines(filenames) on the file system fs: [err, ret].  A single
\* path is wrapped into a list; open() of a path that does not exist raises
\* an I/O error, which ends the call.
count_file_lines(fs, filenames) ==
    LET names == IF ~filenames.islist THEN <<filenames.path>> ELSE filenames.paths
    IN  IF \E k \in DOMAIN names : names[k] \notin DOMAIN fs
        THEN [err |-> "IOError", ret |-> 0]
        ELSE [err |-> "ok",
              ret |-> np_sum([k \in DOMAIN names |-> count_lines(fs[names[k]])])]

Chars == {"a", "\n"}
Contents == UNION {[1..n -> Chars] : n \in 0..MaxFileLen}
Paths == {"a.txt", "b.txt"}
AnyPaths == Paths \cup {"missing.txt"}
\* The filenames argument: one path, or a list of paths.
Filenames ==
    {[islist |-> FALSE, path |-> p, paths |-> <<>>] : p \in AnyPaths}
    \cup {[islist |-> TRUE, path |-> "", paths |-> ps] :
             ps \in UNION {[1..n -> AnyPaths] : n \in 0..MaxFiles}}

NoLineCall == [op |-> "none", filenames |-> [islist |-> TRUE, path |-> "", paths |-> <<>>],
               err |-> "ok", ret |-> 0]

InitLineIdle ==
    /\ files = [p \in {} |-> <<>>]
    /\ lc = NoLineCall

InitLine ==
    /\ files \in [Paths -> Contents]
    /\ lc = NoLineCall

CountFileLines ==
    /\ lc = NoLineCall
    /\ \E filenames \in Filenames :
          LET r == count_file_lines(files, filenames)
          IN  lc' = [op |-> "call", filenames |-> filenames, err |-> r.err, ret |-> r.ret]
    /\ UNCHANGED files
    /\ UNCHANGED notLine

\* The caller takes the count (or handles the exception).
LineReturn ==
    /\ lc # NoLineCall
    /\ lc' = NoLineCall
    /\ UNCHANGED files
    /\ UNCHANGED notLine

NextLine ==
    \/ CountFileLines
    \/ LineReturn

----------------------------------------------------------------------------
(* make_combined_transformation                                            *)

\* Field names and prefixes are strings, kept as sequences of characters.
NameA == <<"a">>
NameAA == <<"a", "_", "a">>

\* "{}_{}".format(prefix, name)
Format(prefix, name) == prefix \o <<"_">> \o name

\* The transformation functions handed in, each called as fn(data_i, arg) on
\* a mapping and returning a mapping: incr adds arg to every value, sfx
\* renames every field n to n + "_a".
MapFns == {"incr", "sfx"}
RECURSIVE SfxLoop(_, _)
SfxLoop(d, ks) ==
    IF ks = <<>> THEN EmptyDict
    ELSE DictSet(SfxLoop(d, SubSeq(ks, 1, Len(ks) - 1)),
                 ks[Len(ks)] \o <<"_", "a">>, d.val[ks[Len(ks)]])
ApplyMap(fn, d, arg) ==
    CASE fn = "incr" -> [keys |-> d.keys, val |-> [n \in DOMAIN d.val |-> d.val[n] + arg]]
      [] fn = "sfx" -> SfxLoop(d, d.keys)

\* An element of tran_fns: one function, or a list of functions.
OneFn(fn) == [islist |-> FALSE, fn |-> fn, fns |-> <<>>]
FnList(fns) == [islist |-> TRUE, fn |-> "", fns |-> fns]

\* name_prefix: None, or a list of prefixes.
NoPrefix == [given |-> FALSE, items |-> <<>>]
Prefixes(items) == [given |-> TRUE, items |-> items]

\* The truth value Python gives name_prefix in `if name_prefix`: false for
\* None and for an empty list.
Truthy(name_prefix) == name_prefix.given /\ Len(name_prefix.items) > 0

\* make_combined_transformation(tran_fns, name_prefix, arg): the check of
\* the lengths, then the closure.
make_combined_transformation(tran_fns, name_prefix, arg) ==
    IF Truthy(name_prefix) /\ Len(name_prefix.items) # Len(tran_fns)
    THEN [state |-> "error", err |-> "ValueError", tran_fns |-> <<>>,
          name_prefix |-> NoPrefix, arg |-> 0]
    ELSE [state |-> "made", err |-> "ok", tran_fns |-> tran_fns,
          name_prefix |-> name_prefix, arg |-> arg]

\* for tran_fns_ij in tran_fns_i: data_i = tran_fns_ij(data_i, arg)
RECURSIVE ProcessLoop(_, _, _)
ProcessLoop(fns, data_i, arg) ==
    IF fns = <<>> THEN data_i
    ELSE ProcessLoop(Tail(fns), ApplyMap(Head(fns), data_i, arg), arg)

\* The loop over the fields ks of data_i still to add to transformed_data.
RECURSIVE AddLoop(_, _, _, _, _)
AddLoop(c, i, data_i, ks, transformed_data) ==
    IF ks = <<>> THEN [err |-> "ok", name |-> <<>>, ret |-> transformed_data]
    ELSE LET name == Head(ks)
             new_name == IF Truthy(c.name_prefix)
                         THEN Format(c.name_prefix.items[i], name)
                         ELSE name
         IN  IF new_name \in DOMAIN transformed_data.val
             THEN [err |-> "ValueError", name |-> new_name, ret |-> EmptyDict]
             ELSE AddLoop(c, i, data_i, Tail(ks),
                          DictSet(transformed_data, new_name, data_i.val[name]))

\* The loop of _combined_fn over the components i .. len(tran_fns).
RECURSIVE CombinedLoop(_, _, _, _)
CombinedLoop(c, data, i, transformed_data) ==
    IF i > Len(c.tran_fns) THEN [err |-> "ok", name |-> <<>>, ret |-> transformed_data]
    ELSE LET tran_fns_i == IF ~c.tran_fns[i].islist
                           THEN <<c.tran_fns[i].fn>>
                           ELSE c.tran_fns[i].fns
             data_i == ProcessLoop(tran_fns_i, data[i], c.arg)
             r == AddLoop(c, i, data_i, data_i.keys, transformed_data)
         IN  IF r.err = "ok" THEN CombinedLoop(c, data, i + 1, r.ret) ELSE r

\* _combined_fn(data) of the closure c: [err, name, ret].
combined_fn(c, data) == CombinedLoop(c, data, 1, EmptyDict)

FnElements ==
    {OneFn(f) : f \in MapFns}
    \cup {FnList(fs) : fs \in UNION {[1..n -> MapFns] : n \in 0..MaxChain}}
CombTranFns == UNION {[1..n -> FnElements] : n \in 0..MaxComp}
PrefixStrings == {NameA, NameAA}
NamePrefixes ==
    {NoPrefix} \cup {Prefixes(ps) : ps \in UNION {[1..n -> PrefixStrings] : n \in 0..MaxComp}}
\* The components of the data: mappings from field names to numbers.
Components ==
    {EmptyDict,
     DictSet(EmptyDict, NameA, 0),
     DictSet(EmptyDict, NameAA, 1),
     DictSet(DictSet(EmptyDict, NameA, 0), NameAA, 1)}

NoCombined == [state |-> "none",
               made |-> [state |-> "none", err |-> "ok", tran_fns |-> <<>>,
                         name_prefix |-> NoPrefix, arg |-> 0],
               args |-> [tran_fns |-> <<>>, name_prefix |-> NoPrefix]]
NoCombCall == [op |-> "none", data |-> <<>>, err |-> "ok", name |-> <<>>,
               ret |-> EmptyDict]

InitComb ==
    /\ combined = NoCombined
    /\ blast = NoCombCall

\* make_combined_transformation(tran_fns, name_prefix, arg); args keeps the
\* arguments of the call.
MakeCombinedTransformation ==
    /\ combined.state = "none"
    /\ \E tran_fns \in CombTranFns, name_prefix \in NamePrefixes, arg \in 1..2 :
          LET r == make_combined_transformation(tran_fns, name_prefix, arg)
          IN  combined' = [state |-> r.state, made |-> r,
                           args |-> [tran_fns |-> tran_fns, name_prefix |-> name_prefix]]
    /\ UNCHANGED blast
    /\ UNCHANGED notComb

\* _combined_fn(data), data a tuple of len(tran_fns) components.
CombinedFn ==
    /\ combined.state = "made"
    /\ blast = NoCombCall
    /\ \E data \in [1..Len(combined.made.tran_fns) -> Components] :
          LET r == combined_fn(combined.made, data)
          IN  blast' = [op |-> "call", data |-> data, err |-> r.err, name |-> r.name,
                        ret |-> r.ret]
    /\ UNCHANGED combined
    /\ UNCHANGED notComb

\* The caller takes the mapping (or handles the exception).
CombReturn ==
    /\ blast # NoCombCall
    /\ blast' = NoCombCall
    /\ UNCHANGED combined
    /\ UNCHANGED notComb

NextComb ==
    \/ MakeCombinedTransformation
    \/ CombinedFn
    \/ CombReturn

----------------------------------------------------------------------------
(* Specifications: one per component, the others idle.                     *)

DataInit ==
    InitData /\ InitShardIdle /\ InitChain /\ InitComb /\ InitTuple /\ InitLineIdle
SpecData == DataInit /\ [][NextData]_vars

ShardInit ==
    InitShard /\ InitDataIdle /\ InitChain /\ InitComb /\ InitTuple /\ InitLineIdle
SpecShard == ShardInit /\ [][NextShard]_vars

ChainInit ==
    InitChain /\ InitDataIdle /\ InitShardIdle /\ InitComb /\ InitTuple /\ InitLineIdle
SpecChain == ChainInit /\ [][NextChain]_vars

CombInit ==
    InitComb /\ InitDataIdle /\ InitShardIdle /\ InitChain /\ InitTuple /\ InitLineIdle
SpecComb == CombInit /\ [][NextComb]_vars

TupleInit ==
    InitTuple /\ InitDataIdle /\ InitShardIdle /\ InitChain /\ InitComb /\ InitLineIdle
SpecTuple == TupleInit /\ [][NextTuple]_vars

LineInit ==
    InitLine /\ InitDataIdle /\ InitShardIdle /\ InitChain /\ InitComb /\ InitTuple
SpecLine == LineInit /\ [][NextLine]_vars

----------------------------------------------------------------------------
(* Claims about random_shard_dataset                                       *)

\* The shard [offset, offset + shard_size) cut off at dataset_size.
ShardOf(offset) == {r \in 0..(dataset_size - 1) : offset <= r /\ r < offset + shard_size}

Occurrences(seq, r) == Cardinality({k \in DOMAIN seq : seq[k] = r})

\* C1: the shards taken at the boundary offsets are pairwise disjoint and
\* together cover [0, dataset_size), so the finished output holds every
\* record of the source exactly once.
C1_ShardsPartitionSource ==
    /\ spc \in {"made", "iter", "done"} =>
        /\ \A j, k \in DOMAIN boundaries :
              j # k => ShardOf(boundaries[j]) \cap ShardOf(boundaries[k]) = {}
        /\ \A r \in 0..(dataset_size - 1) :
              \E k \in DOMAIN boundaries : r \in ShardOf(boundaries[k])
    /\ spc = "done" => \A r \in 0..(dataset_size - 1) : Occurrences(output, r) = 1

\* The block of an offset: the contiguous run of source records from the
\* offset on, min(shard_size, dataset_size - offset) of them, in source order.
Block(offset) == [j \in 1..Min(shard_size, dataset_size - offset) |-> offset + j - 1]

RECURSIVE ConcatBlocks(_)
ConcatBlocks(offsets) ==
    IF offsets = <<>> THEN <<>>
    ELSE Block(Head(offsets)) \o ConcatBlocks(Tail(offsets))

IsPrefix(s, t) == Len(s) <= Len(t) /\ SubSeq(t, 1, Len(s)) = s

\* C2: the output is the concatenation, in the shuffled order, of one block
\* per offset, every offset used exactly once; while a block is being
\* emitted the output is the earlier blocks followed by a prefix of it, so
\* blocks never interleave and records within a block keep source order.
C2_BlocksInShuffledOrder ==
    /\ spc = "iter" /\ inner.active =>
        /\ IsPrefix(ConcatBlocks(SubSeq(order, 1, Len(order) - 1)), output)
        /\ IsPrefix(output, ConcatBlocks(order))
    /\ spc = "iter" /\ ~inner.active => output = ConcatBlocks(order)
    /\ spc = "done" =>
        /\ output = ConcatBlocks(order)
        /\ Len(order) = Len(boundaries)
        /\ \A k \in DOMAIN boundaries : Occurrences(order, boundaries[k]) = 1

\* A finished run whose shuffle did not keep the boundaries' order and in
\* which a shard is cut off at the end of the source.
C2_Witness ==
    /\ spc = "done"
    /\ Len(order) >= 2
    /\ order # boundaries
    /\ \E k \in DOMAIN order : Len(Block(order[k])) < shard_size
    /\ Len(output) > 0

----------------------------------------------------------------------------
(* Claims about _DataSpec                                                  *)

\* Element i of a sequence, i a valid Python index of it.
ElemAt(items, i) == items[IF i >= 0 THEN i + 1 ELSE Len(items) + i + 1]
ValidIndex(n, i) == -n <= i /\ i < n
SeqValued(v) == v.tag = "list" \/ v.tag = "tuple"

SharedFields == DOMAIN last.other.val \cap DOMAIN last.pre.val

\* The call set_ith_data_spec(i, other, num) used i only where it is an
\* index: of every sequence-valued field the container shares with other,
\* and of the num placeholders of every field it does not have.
InjectIndexValid ==
    /\ \A k \in SharedFields :
          SeqValued(last.pre.val[k]) => ValidIndex(Len(last.pre.val[k].items), last.i)
    /\ \A k \in DOMAIN last.other.val \ DOMAIN last.pre.val : ValidIndex(last.num, last.i)

\* C3: after set_ith_data_spec(i, other, num), for every field k of both
\* other and the container: a sequence-valued k has element i equal to
\* other.k, its length and its other elements unchanged; a scalar k (None
\* included) is other.k itself.  (Stated for calls that use i only as a valid
\* index.)
C3_InjectSetsElementOrOverwrites ==
    (last.op = "set" /\ InjectIndexValid) =>
        \A k \in SharedFields :
            LET old == last.pre.val[k]
                new == self.val[k]
                v == last.other.val[k]
            IN  IF SeqValued(old)
                THEN /\ SeqValued(new)
                     /\ Len(new.items) = Len(old.items)
                     /\ ElemAt(new.items, last.i) = v
                     /\ \A j \in DOMAIN old.items :
                           old.items[j] # new.items[j] =>
                               j = (IF last.i >= 0 THEN last.i + 1
                                    ELSE Len(old.items) + last.i + 1)
                ELSE new = v

\* C4: set_ith_data_spec(i, other, num) on a container without field x,
\* 0 <= i < num, other having x: afterwards x is a list of length num,
\* element i other.x and every other element None, and every container field
\* that is no field of other is unchanged.  (Stated for calls that use i only
\* as a valid index.)
C4_InjectAllocatesNewField ==
    (/\ last.op = "set"
     /\ InjectIndexValid
     /\ "x" \notin DOMAIN last.pre.val
     /\ "x" \in DOMAIN last.other.val
     /\ 0 <= last.i /\ last.i < last.num) =>
        /\ "x" \in DOMAIN self.val
        /\ self.val["x"].tag = "list"
        /\ Len(self.val["x"].items) = last.num
        /\ \A j \in 1..last.num :
              self.val["x"].items[j] =
                  IF j = last.i + 1 THEN last.other.val["x"] ELSE None
        /\ \A k \in DOMAIN last.pre.val \ DOMAIN last.other.val :
              k \in DOMAIN self.val /\ self.val[k] = last.pre.val[k]

\* Where C3 and C4 fail: a field of both the container and other holds a
\* tuple, on which v_[i] = v raises TypeError.
TupleShared == \E k \in SharedFields : last.pre.val[k].tag = "tuple"

\* With no tuple-valued shared field the statements of C3 and C4 hold.
C3_HoldsWithoutTuples == (last.op = "set" /\ ~TupleShared) => C3_InjectSetsElementOrOverwrites
C4_HoldsWithoutTuples == (last.op = "set" /\ ~TupleShared) => C4_InjectAllocatesNewField

\* C5: get_ith_data_spec(i) returns a new container with exactly the field
\* names of the original, a list- or tuple-valued field holding its i-th
\* element and every other field its original value; the original is
\* unchanged; and when i is outside the index range of some sequence-valued
\* field (for Python, outside -len .. len-1) the call raises IndexError and
\* returns no container.
C5_ProjectTakesIthElements ==
    last.op = "get" =>
        LET pre == last.pre.val
            OutOfRange == \E k \in DOMAIN pre :
                              SeqValued(pre[k]) /\ ~ValidIndex(Len(pre[k].items), last.i)
        IN  /\ self = last.pre
            /\ IF OutOfRange
               THEN last.err = "IndexError" /\ last.ret = EmptyDict
               ELSE /\ last.err = "ok"
                    /\ DOMAIN last.ret.val = DOMAIN pre
                    /\ \A k \in DOMAIN pre :
                          last.ret.val[k] = IF SeqValued(pre[k])
                                            THEN ElemAt(pre[k].items, last.i)
                                            ELSE pre[k]

\* A projection at index 1 of a container with a list, a tuple and scalars.
C5_Witness ==
    /\ last.op = "get"
    /\ last.i = 1
    /\ last.err = "ok"
    /\ self.val["decoder"] = List(<<None, Obj("d0")>>)
    /\ "x" \in DOMAIN self.val
    /\ self.val["x"] = Tuple(<<Obj("d0"), None>>)
    /\ self.val["vocab"] = Obj("v")
    /\ last.ret.val["decoder"] = Obj("d0")
    /\ last.ret.val["x"] = None
    /\ last.ret.val["vocab"] = Obj("v")

----------------------------------------------------------------------------
(* Claims about maybe_tuple                                                *)

\* C9: maybe_tuple returns the only element of a sequence of exactly one
\* element and, for every other finite sequence, of length 0 or of length 2
\* or more, the tuple of its elements in the same order.
C9_MaybeTupleUnwrapsOnlySingleton ==
    mt.op = "call" =>
        /\ mt.err = "ok"
        /\ mt.ret = IF Len(mt.data) = 1 THEN mt.data[1] ELSE Tuple(mt.data)

----------------------------------------------------------------------------
(* Claims about make_chained_transformation                                *)

\* fn(...f1(x)...): the functions composed, the last one outermost.
RECURSIVE Compose(_, _, _)
Compose(fns, x, arg) ==
    IF fns = <<>> THEN x
    ELSE Apply(fns[Len(fns)], Compose(SubSeq(fns, 1, Len(fns) - 1), x, arg), arg)

\* C8: the chained function calls each function of fns exactly once, in list
\* order, the first on x and each later one on the result of the one before,
\* all with the same extra argument, and returns the last result:
\* fn(...f1(x)...), and x itself for empty fns.
C8_ChainedAppliesInOrder ==
    clast.op = "call" =>
        LET fns == chained.tran_fns
            calls == clast.calls
        IN  /\ Len(calls) = Len(fns)
            /\ \A k \in DOMAIN fns :
                  /\ calls[k].fn = fns[k]
                  /\ calls[k].arg = chained.arg
                  /\ calls[k].data = IF k = 1 THEN clast.data
                                     ELSE Apply(fns[k - 1], calls[k - 1].data, chained.arg)
            /\ clast.ret = Compose(fns, clast.data, chained.arg)
            /\ fns = <<>> => clast.ret = clast.data

\* sqr(dbl(add(1, 1))) = 16, where the other orders of the three give other
\* results.
C8_Witness ==
    /\ clast.op = "call"
    /\ chained.tran_fns = <<"add", "dbl", "sqr">>
    /\ chained.arg = 1
    /\ clast.data = 1
    /\ clast.ret = 16
    /\ Len(clast.calls) = 3

----------------------------------------------------------------------------
(* Claims about make_combined_transformation                               *)

\* What component i's functions make of data[i], each applied in list order.
ComponentOut(i) ==
    LET e == combined.args.tran_fns[i]
    IN  ProcessLoop(IF e.islist THEN e.fns ELSE <<e.fn>>, blast.data[i], combined.made.arg)

\* The fields the components produce: <<component, name>>.
ProducedFields ==
    UNION {{<<i, n>> : n \in DOMAIN ComponentOut(i).val} :
              i \in DOMAIN combined.args.tran_fns}

\* name_prefix was given (is not None) and has a prefix for every component.
PrefixForEach ==
    \A i \in DOMAIN combined.args.tran_fns : i \in DOMAIN combined.args.name_prefix.items

\* The name of a produced field in the result: prefixed when name_prefix is
\* given.
Renamed(p) ==
    IF combined.args.name_prefix.given
    THEN combined.args.name_prefix.items[p[1]] \o <<"_">> \o p[2]
    ELSE p[2]

\* C6: the combined function applies fns[i] to data[i] only, renames every
\* resulting field to name_prefix[i] + "_" + name when name_prefix is given,
\* and returns one mapping of exactly the renamed fields with their values;
\* when two components produce the same renamed name it raises a Value error
\* naming that field and returns no mapping.
C6_CombinedMergesRenamedFields ==
    blast.op = "call" =>
        IF combined.args.name_prefix.given /\ ~PrefixForEach
        THEN FALSE
        ELSE IF \E p, q \in ProducedFields : p # q /\ Renamed(p) = Renamed(q)
             THEN /\ blast.err = "ValueError"
                  /\ blast.ret = EmptyDict
                  /\ \E p, q \in ProducedFields :
                        p # q /\ Renamed(p) = Renamed(q) /\ blast.name = Renamed(p)
             ELSE /\ blast.err = "ok"
                  /\ DOMAIN blast.ret.val = {Renamed(p) : p \in ProducedFields}
                  /\ \A p \in ProducedFields :
                        blast.ret.val[Renamed(p)] = ComponentOut(p[1]).val[p[2]]

\* For name_prefix None, or given with a prefix for every component, the
\* statement of C6 holds.
C6_HoldsForConsistentPrefix ==
    (blast.op = "call" /\ (combined.args.name_prefix.given => PrefixForEach)) =>
        C6_CombinedMergesRenamedFields

\* C7: make_combined_transformation raises a Value error, and returns no
\* function, whenever name_prefix is given (not None) and its length differs
\* from the length of fns, an empty name_prefix included.
C7_PrefixLengthMismatchRaises ==
    (/\ combined.state # "none"
     /\ combined.args.name_prefix.given
     /\ Len(combined.args.name_prefix.items) # Len(combined.args.tran_fns)) =>
        /\ combined.state = "error"
        /\ combined.made.err = "ValueError"

----------------------------------------------------------------------------
(* Claims about count_file_lines                                           *)

NewlineCount(content) == Cardinality({k \in DOMAIN content : content[k] = "\n"})

\* The lines of a file: its newline-terminated records, and one more for
\* the characters after the last newline when there are any.
LineCount(content) ==
    NewlineCount(content)
        + (IF content # <<>> /\ content[Len(content)] # "\n" THEN 1 ELSE 0)

CalledPaths == IF lc.filenames.islist THEN lc.filenames.paths ELSE <<lc.filenames.path>>
AllReadable == \A k \in DOMAIN CalledPaths : CalledPaths[k] \in DOMAIN files

RECURSIVE SumOver(_, _)
SumOver(paths, k) ==
    IF k = 0 THEN 0
    ELSE SumOver(paths, k - 1) + NewlineCount(files[paths[k]])

RECURSIVE SumLines(_, _)
SumLines(paths, k) ==
    IF k = 0 THEN 0
    ELSE SumLines(paths, k - 1) + LineCount(files[paths[k]])

\* C10 as claimed: for readable paths count_file_lines returns the sum of
\* the files' counts of newline-terminated records, never negative, 0 for a
\* file with no content.
C10_CountsNewlineTerminatedRecords ==
    (lc.op = "call" /\ AllReadable) =>
        /\ lc.err = "ok"
        /\ lc.ret = SumOver(CalledPaths, Len(CalledPaths))
        /\ lc.ret >= 0

\* C10 as amended: for readable paths count_file_lines returns the sum of
\* the files' line counts, a line being a newline-terminated record or the
\* non-empty rest after the last newline; a file with no content contributes
\* 0, so the result is never negative and a single empty file gives 0.
C10_CountsLines ==
    (lc.op = "call" /\ AllReadable) =>
        /\ lc.err = "ok"
        /\ lc.ret = SumLines(CalledPaths, Len(CalledPaths))
        /\ lc.ret >= 0
        /\ (\A k \in DOMAIN CalledPaths : files[CalledPaths[k]] = <<>>) => lc.ret = 0

\* A call on an empty file and a file whose last line has no newline.
C10_Witness ==
    /\ lc.op = "call"
    /\ lc.filenames = [islist |-> TRUE, path |-> "", paths |-> <<"a.txt", "b.txt">>]
    /\ files["a.txt"] = <<>>
    /\ files["b.txt"] = <<"a", "\n", "a">>
    /\ lc.err = "ok"
    /\ lc.ret = 2

====
